---- MODULE Spec2Model ----
(***************************************************************************)
(* A model of tools/juman_secure.py: the JuMan encrypted file vault.       *)
(*                                                                         *)
(* The vault directory is a file system `fs` (relative path -> content).   *)
(* File names are sequences of one-character strings, so that lower(),     *)
(* startswith() and split('__') are computed as the code computes them.    *)
(* AES-GCM and PBKDF2 are modelled symbolically: a ciphertext remembers    *)
(* the key and the plaintext it was made from and whether its bytes are    *)
(* still intact; decryption yields the plaintext exactly when the key is   *)
(* the same and nothing was altered, and raises otherwise.  Values drawn   *)
(* from secrets.token_bytes and uuid.uuid4 are fresh (a counter).          *)
(*                                                                         *)
(* Each function of the program is an operator from the state it reads and *)
(* its arguments to what it returns and the state it leaves; the actions   *)
(* apply these operators.  tmp is what the calls have left in the          *)
(* temporary directory.  initPw and restored are history variables: the    *)
(* password of the init call that created the present key wrap, and the    *)
(* files now present that a restore brought back.                          *)
(*                                                                         *)
(* Two functions are also modelled one system call at a time: erase is a   *)
(* call of secure_overwrite_and_delete in progress (EraseSpec), and procs  *)
(* are processes running init_data_dir on the same directory (RaceSpec).   *)
(***************************************************************************)
EXTENDS Integers, Sequences, FiniteSets, TLC

VARIABLES fs, dirs, tmp, initPw, restored, nInits, nUuid, erase, procs

vars == <<fs, dirs, tmp, initPw, restored, nInits, nUuid, erase, procs>>

---------------------------------------------------------------------------
(* Bounds of the model                                                     *)

MaxInits == 2
MaxUuids == 3

Passwords == {"Tr0ub4dor&3", "hunter2"}
(* The files a caller stores: a file name and the bytes it holds.          *)
SourceFiles == {[name |-> <<"r">>, content |-> "PDF-DATA"],
                [name |-> <<"R", " ">>, content |-> "TXT-DATA"]}

---------------------------------------------------------------------------
(* Program constants                                                       *)

CONFIG_NAME == <<"c", "o", "n", "f", "i", "g", ".", "j", "s", "o", "n">>
MASTER_KEY_ENC == <<"m", "a", "s", "t", "e", "r", ".", "k", "e", "y", ".", "e", "n", "c">>
RECOVERY == <<"r", "e", "c", "o", "v", "e", "r", "y", ".", "t", "x", "t">>
STORAGE_DIRNAME == <<"s", "t", "o", "r", "a", "g", "e">>
BACKUP_SUFFIX == <<".", "j", "u", "m", "a", "n", "b", "a", "c", "k", "u", "p">>
PBKDF2_ITER == 200000
AESGCM_IV_LEN == 12

SEP == <<"_", "_">>
JMN == <<".", "j", "m", "n">>
DOT_ZIP == <<".", "z", "i", "p">>
JUMAN_BACKUP_ == <<"j", "u", "m", "a", "n", "_", "b", "a", "c", "k", "u", "p", "_">>

(* Paths are relative to data_dir: a sequence of components.  OUTSIDE is    *)
(* any path that is not inside data_dir, NONE is Python's None.            *)
OUTSIDE == << <<"/">> >>
NONE == << <<"None">> >>
DATA == <<>>
STORAGE == <<STORAGE_DIRNAME>>
CONFIG_PATH == <<CONFIG_NAME>>
MK_ENC_PATH == <<MASTER_KEY_ENC>>
RECOVERY_PATH == <<RECOVERY>>

---------------------------------------------------------------------------
(* Strings                                                                 *)

UpperChars == <<"A", "B", "C", "D", "E", "F", "J", "M", "N", "R">>
LowerChars == <<"a", "b", "c", "d", "e", "f", "j", "m", "n", "r">>
Digits == {"0", "1", "2", "3", "4", "5", "6", "7", "8", "9"}

Range(s) == {s[i] : i \in DOMAIN s}

(* c.lower() for the letters in use, as a table.                           *)
LowerOf ==
  [c \in Range(UpperChars) |-> LowerChars[CHOOSE i \in DOMAIN UpperChars : UpperChars[i] = c]]

LowerChar(c) == IF c \in DOMAIN LowerOf THEN LowerOf[c] ELSE c

(* c.upper() for the letters in use, as a table.                           *)
UpperOf ==
  [c \in Range(LowerChars) |-> UpperChars[CHOOSE i \in DOMAIN LowerChars : LowerChars[i] = c]]

UpperChar(c) == IF c \in DOMAIN UpperOf THEN UpperOf[c] ELSE c

lower(s) == [i \in DOMAIN s |-> LowerChar(s[i])]

upper(s) == [i \in DOMAIN s |-> UpperChar(s[i])]

startswith(s, p) == Len(p) <= Len(s) /\ SubSeq(s, 1, Len(p)) = p

endswith(s, p) == Len(p) <= Len(s) /\ SubSeq(s, Len(s) - Len(p) + 1, Len(s)) = p

(* The index of the first occurrence of '__' in s, 0 when there is none.   *)
FindSep(s) ==
  LET hits == {i \in 1..(Len(s) - 1) : s[i] = "_" /\ s[i + 1] = "_"}
  IN IF hits = {} THEN 0 ELSE CHOOSE i \in hits : \A j \in hits : i <= j

(* name.split('__', 1)[0]                                                  *)
IdPart(s) == SubSeq(s, 1, FindSep(s) - 1)

isalnum(c) ==
  \/ c \in Digits
  \/ c \in Range(UpperChars)
  \/ c \in Range(LowerChars)
  \/ c \in {"o", "t", "x", "z"}

_sanitize_filename(fn) ==
  [i \in DOMAIN fn |-> IF isalnum(fn[i]) \/ fn[i] \in {".", "_", "-"} THEN fn[i] ELSE "_"]

(* str(uuid.uuid4()): the n-th draw.  Draws are distinct and of one length.*)
UuidPool ==
  << <<"a", "1">>, <<"a", "2">>, <<"b", "1">>, <<"b", "2">>, <<"c", "1">>, <<"c", "2">> >>
Uuid4_Repeating(n) == UuidPool[1]
Uuid4(n) == UuidPool[n]

(* The bytes of the source file a blob name was made from.                 *)
StoredContent(name) ==
  LET f == CHOOSE x \in SourceFiles : endswith(name, SEP \o _sanitize_filename(x.name) \o JMN)
  IN f.content

---------------------------------------------------------------------------
(* Keys and authenticated encryption                                       *)

NoKey == [kt |-> "none", id |-> 0, pw |-> "", salt |-> 0, iter |-> 0]

MasterKey_Reused(n) == [kt |-> "mk", id |-> 1, pw |-> "", salt |-> 0, iter |-> 0]

(* secrets.token_bytes(32): the n-th master key.                           *)
MasterKey(n) == [kt |-> "mk", id |-> n, pw |-> "", salt |-> 0, iter |-> 0]

_derive_key(password, salt, iterations) ==
  [kt |-> "dk", id |-> 0, pw |-> password, salt |-> salt, iter |-> iterations]

Plain(data) == [kind |-> "plain", data |-> data]
KeyBytes(k) == [kind |-> "keybytes", k |-> k]
Bytes(what) == [kind |-> "bytes", what |-> what]

(* The bytes of a plaintext, as retrieve writes them out.                  *)
PlainData(pt) == IF pt.kind = "plain" THEN pt.data ELSE "<" \o pt.kind \o ">"

(* iv + ct: nonce, ciphertext and tag of pt under key.                     *)
_encrypt_with_key(pt, key) == [kind |-> "aead", key |-> key, pt |-> pt, dmg |-> "none"]

(* AESGCM(key).decrypt(iv, ct, None) on data[:12], data[12:]: the          *)
(* plaintext, or an exception: InvalidTag on any altered or missing byte   *)
(* or another key, ValueError on a nonce shorter than 8 bytes.             *)
DecryptOk_NoTagCheck(data, key) ==
  /\ data.kind = "aead"
  /\ data.key = key

DecryptOk_AnyKey(data, key) ==
  /\ data.kind = "aead"
  /\ data.dmg = "none"

DecryptOk(data, key) ==
  /\ data.kind = "aead"
  /\ data.dmg = "none"
  /\ data.key = key

_decrypt_with_key(data, key) == data.pt

---------------------------------------------------------------------------
(* The file system                                                         *)

Write(f, path, content) == [p \in DOMAIN f \cup {path} |-> IF p = path THEN content ELSE f[p]]

Unlink(f, path) == [p \in DOMAIN f \ {path} |-> f[p]]

(* The paths of the files directly inside storage/.                        *)
StoragePaths(f) == {p \in DOMAIN f : Len(p) = 2 /\ p[1] = STORAGE_DIRNAME}

StorageNames(f) == {p[2] : p \in StoragePaths(f)}

list_stored(f, d) == IF STORAGE \in d THEN StorageNames(f) ELSE {}

(* No call of secure_overwrite_and_delete is in progress.                   *)
NotErasing ==
  [pc |-> "idle", existed |-> FALSE, exists |-> FALSE, len |-> 0, passes |-> 0,
   size |-> 0, pass |-> 0, remaining |-> 0, log |-> << >>, raised |-> FALSE]

Init ==
  /\ fs = << >>
  /\ dirs = {}
  /\ tmp = {}
  /\ initPw = ""
  /\ restored = {}
  /\ nInits = 0
  /\ nUuid = 0
  /\ erase = NotErasing
  /\ procs = << >>

---------------------------------------------------------------------------
(* KeyVault                                                                *)

Initialized(f) == CONFIG_PATH \in DOMAIN f /\ MK_ENC_PATH \in DOMAIN f

init_data_dir_Overwrite(f, d, k, password) ==
  LET master_key == MasterKey(k + 1)
      salt == k + 1
      dk == _derive_key(password, salt, PBKDF2_ITER)
      enc == _encrypt_with_key(KeyBytes(master_key), dk)
      config == [kind |-> "json", salt |-> salt, iterations |-> PBKDF2_ITER]
      rec == [kind |-> "text", token |-> k + 1]
  IN [fs |-> Write(Write(Write(f, MK_ENC_PATH, enc), CONFIG_PATH, config), RECOVERY_PATH, rec),
      dirs |-> d \cup {DATA, STORAGE}, nInits |-> k + 1, res |-> "ok"]

init_data_dir_KeyInRecovery(f, d, k, password) ==
  IF CONFIG_PATH \in DOMAIN f /\ MK_ENC_PATH \in DOMAIN f
  THEN [fs |-> f, dirs |-> d \cup {DATA, STORAGE}, nInits |-> k, res |-> "already"]
  ELSE LET master_key == MasterKey(k + 1)
           dk == _derive_key(password, k + 1, PBKDF2_ITER)
           enc == _encrypt_with_key(KeyBytes(master_key), dk)
           config == [kind |-> "json", salt |-> k + 1, iterations |-> PBKDF2_ITER]
       IN [fs |-> Write(Write(Write(f, MK_ENC_PATH, enc), CONFIG_PATH, config),
                        RECOVERY_PATH, KeyBytes(master_key)),
           dirs |-> d \cup {DATA, STORAGE}, nInits |-> k + 1, res |-> "ok"]

(* init_data_dir(data_dir, password) on files f and directories d, after k *)
(* earlier key generations.                                                *)
init_data_dir(f, d, k, password) ==
  IF CONFIG_PATH \in DOMAIN f /\ MK_ENC_PATH \in DOMAIN f
  THEN [fs |-> f, dirs |-> d \cup {DATA, STORAGE}, nInits |-> k, res |-> "already"]
  ELSE LET master_key == MasterKey(k + 1)
           salt == k + 1
           dk == _derive_key(password, salt, PBKDF2_ITER)
           enc == _encrypt_with_key(KeyBytes(master_key), dk)
           config == [kind |-> "json", salt |-> salt, iterations |-> PBKDF2_ITER]
           rec == [kind |-> "text", token |-> k + 1]
       IN [fs |-> Write(Write(Write(f, MK_ENC_PATH, enc), CONFIG_PATH, config),
                        RECOVERY_PATH, rec),
           dirs |-> d \cup {DATA, STORAGE}, nInits |-> k + 1, res |-> "ok"]

load_master_key_Unlocked(f, password) ==
  IF ~(CONFIG_PATH \in DOMAIN f) \/ ~(MK_ENC_PATH \in DOMAIN f)
  THEN [err |-> "ConfigMissing", key |-> NoKey]
  ELSE IF f[CONFIG_PATH].kind # "json"
  THEN [err |-> "ConfigCorrupt", key |-> NoKey]
  ELSE LET dk == _derive_key(password, f[CONFIG_PATH].salt, f[CONFIG_PATH].iterations)
           enc == f[MK_ENC_PATH]
           unlocked == \E p \in DOMAIN f : p \notin {CONFIG_PATH, MK_ENC_PATH, RECOVERY_PATH}
       IN IF enc.kind = "aead" /\ enc.dmg = "none" /\ (enc.key = dk \/ unlocked)
          THEN [err |-> "", key |-> enc.pt.k]
          ELSE [err |-> "AuthenticationFailure", key |-> NoKey]

(* load_master_key: the error it raises ("" when it returns) and the key.  *)
load_master_key(f, password) ==
  IF ~(CONFIG_PATH \in DOMAIN f) \/ ~(MK_ENC_PATH \in DOMAIN f)
  THEN [err |-> "ConfigMissing", key |-> NoKey]
  ELSE IF f[CONFIG_PATH].kind # "json"
  THEN [err |-> "ConfigCorrupt", key |-> NoKey]
  ELSE LET salt == f[CONFIG_PATH].salt
           iterations == f[CONFIG_PATH].iterations
           dk == _derive_key(password, salt, iterations)
           enc == f[MK_ENC_PATH]
       IN IF DecryptOk(enc, dk)
          THEN [err |-> "", key |-> _decrypt_with_key(enc, dk).k]
          ELSE [err |-> "AuthenticationFailure", key |-> NoKey]

---------------------------------------------------------------------------
(* Path lookup                                                             *)

RECURSIVE SplitPath(_)
(* The components of s between its '/' characters.                         *)
SplitPath(s) ==
  LET hits == {i \in DOMAIN s : s[i] = "/"}
  IN IF hits = {}
     THEN <<s>>
     ELSE LET i == CHOOSE k \in hits : \A j \in hits : k <= j
          IN <<SubSeq(s, 1, i - 1)>> \o SplitPath(SubSeq(s, i + 1, Len(s)))

RECURSIVE Walk(_, _, _)
(* The file system's resolution of comps from directory cur: '' and '.'    *)
(* stay, '..' goes to the parent, and a component is looked up only in an  *)
(* existing directory.                                                     *)
Walk(d, cur, comps) ==
  IF comps = << >> THEN cur
  ELSE IF cur = OUTSIDE \/ cur \notin d THEN OUTSIDE
  ELSE LET c == Head(comps)
           nxt == IF c = << >> \/ c = <<".">> THEN cur
                  ELSE IF c = <<".", ".">>
                       THEN (IF cur = DATA THEN OUTSIDE ELSE SubSeq(cur, 1, Len(cur) - 1))
                       ELSE Append(cur, c)
       IN Walk(d, nxt, Tail(comps))

(* storage_dir / stored_filename                                           *)
Join(d, stored_filename) ==
  IF Len(stored_filename) > 0 /\ stored_filename[1] = "/"
  THEN OUTSIDE
  ELSE Walk(d, STORAGE, SplitPath(stored_filename))

LoopMatch_CaseSensitive(name, stored_filename) ==
  \/ name = stored_filename
  \/ name = stored_filename \o JMN
  \/ startswith(name, stored_filename)
  \/ (FindSep(name) > 0 /\ IdPart(name) = stored_filename)

(* One turn of the loop over storage_dir.iterdir(): does file `name` end   *)
(* the search?                                                             *)
LoopMatch(name, stored_filename) ==
  \/ lower(name) = lower(stored_filename)
  \/ lower(name) = lower(stored_filename \o JMN)
  \/ startswith(name, stored_filename)
  \/ (FindSep(name) > 0 /\ lower(IdPart(name)) = lower(stored_filename))

RECURSIVE Enumerate(_)
(* One enumeration of a set of names.                                      *)
Enumerate(names) ==
  IF names = {} THEN << >>
  ELSE LET n == CHOOSE x \in names : TRUE IN <<n>> \o Enumerate(names \ {n})

(* The orders in which iterdir() is taken to give a set of names: the      *)
(* rotations of one enumeration.  Any name comes first in one of them, and *)
(* the loop of find_stored_path returns at the first name that matches, so *)
(* whatever some order makes the loop return, one of these does too.       *)
Orders(names) ==
  LET e == Enumerate(names)
      n == Len(e)
  IN IF n = 0 THEN {<< >>}
     ELSE {[i \in 1..n |-> e[((i + k - 1) % n) + 1]] : k \in 0..(n - 1)}

(* find_stored_path over files f and directories d, with iterdir() giving  *)
(* the names of storage/ in the order `order`: the path found, or NONE.    *)
find_stored_path(f, d, order, stored_filename) ==
  LET direct == Join(d, stored_filename)
      alt == Join(d, stored_filename \o JMN)
      hits == {i \in DOMAIN order : LoopMatch(order[i], stored_filename)}
  IN IF direct \in DOMAIN f \/ direct \in d THEN direct
     ELSE IF alt \in DOMAIN f \/ alt \in d THEN alt
     ELSE IF hits = {} THEN NONE
     ELSE <<STORAGE_DIRNAME, order[CHOOSE i \in hits : \A j \in hits : i <= j]>>

---------------------------------------------------------------------------
(* SecureErase                                                             *)

(* secure_overwrite_and_delete(path) on files f: the files afterwards and  *)
(* whether it raised.  fault names the system call that fails, if any:     *)
(* "open", "overwrite" (a write, flush or fsync of the pass, after bytes    *)
(* of the file were overwritten) or "unlink".                              *)
secure_overwrite_and_delete(f, d, path, fault) ==
  IF path \notin DOMAIN f /\ path \notin d
  THEN [fs |-> f, raised |-> FALSE]
  ELSE IF path \in d \/ fault = "open"
  THEN [fs |-> f, raised |-> TRUE]
  ELSE IF fault = "overwrite"
  THEN [fs |-> Write(f, path, Bytes("random")), raised |-> TRUE]
  ELSE IF fault = "unlink"
  THEN [fs |-> Write(f, path, Bytes("random")), raised |-> FALSE]
  ELSE [fs |-> Unlink(f, path), raised |-> FALSE]

---------------------------------------------------------------------------
(* StorageManager                                                          *)

BestEffort_Unguarded(fault) ==
  [raised |-> fault # "none", src |-> "intact"]

(* The best-effort steps that end store_encrypted, each inside try/except: *)
(* the hidden attribute, then secure_overwrite_and_delete(input_path) and, *)
(* when that raises, input_path.unlink().  fault names what fails: "hide", *)
(* "erase_open", "erase_overwrite" (the erase raises before or after it    *)
(* overwrote bytes), "erase_unlink" (its own unlink fails, which it        *)
(* swallows), and with "+unlink" the fallback unlink fails too.  raised:   *)
(* whether an exception leaves the steps; src: what is left of the source  *)
(* file ("erased": overwritten and unlinked, "unlinked", "overwritten":    *)
(* still there with random bytes, "intact").                               *)
BestEffort(fault) ==
  [raised |-> FALSE,
   src |-> CASE fault \in {"erase_open", "erase_overwrite"} -> "unlinked"
             [] fault = "erase_open+unlink" -> "intact"
             [] fault \in {"erase_unlink", "erase_overwrite+unlink"} -> "overwritten"
             [] OTHER -> "erased"]

store_encrypted_NoFinalWrite(f, d, n, raw, content, password, fault) ==
  LET r == load_master_key(f, password)
      out_name == Uuid4(n + 1) \o SEP \o _sanitize_filename(raw) \o JMN
      d1 == d \cup {DATA, STORAGE}
  IN IF r.err # ""
     THEN [fs |-> f, dirs |-> d1, nUuid |-> n, res |-> r.err, name |-> << >>,
           src |-> "intact"]
     ELSE [fs |-> Write(f, <<STORAGE_DIRNAME, out_name>>, Bytes("iv")), dirs |-> d1,
           nUuid |-> n + 1, res |-> "ok", name |-> out_name, src |-> "erased"]

store_encrypted_EraseFirst(f, d, n, raw, content, password, fault) ==
  LET r == load_master_key(f, password)
      out_name == Uuid4(n + 1) \o SEP \o _sanitize_filename(raw) \o JMN
      out_path == <<STORAGE_DIRNAME, out_name>>
      d1 == d \cup {DATA, STORAGE}
  IN IF r.err # ""
     THEN [fs |-> f, dirs |-> d1, nUuid |-> n, res |-> r.err, name |-> << >>,
           src |-> "intact"]
     ELSE IF fault \in {"write_empty", "write_cut"}
     THEN [fs |-> Write(f, out_path, Bytes("empty")), dirs |-> d1, nUuid |-> n + 1,
           res |-> "IOFailure", name |-> << >>, src |-> "erased"]
     ELSE [fs |-> Write(f, out_path, _encrypt_with_key(Plain(content), r.key)),
           dirs |-> d1, nUuid |-> n + 1, res |-> "ok", name |-> out_name,
           src |-> "erased"]

(* store_encrypted(input_path, password) on files f and directories d      *)
(* after n draws of uuid4: input_path is a file named raw holding content. *)
(* fault names the step that fails, if any: "open" (the source cannot be   *)
(* opened), "read", "encrypt", "write_empty" and "write_cut" (the final    *)
(* write fails after none or some of the bytes), or one of the faults of   *)
(* BestEffort.  src is what is left of the source file.                    *)
store_encrypted(f, d, n, raw, content, password, fault) ==
  LET r == load_master_key(f, password)
      idstr == Uuid4(n + 1)
      out_name == idstr \o SEP \o _sanitize_filename(raw) \o JMN
      out_path == <<STORAGE_DIRNAME, out_name>>
      blob == _encrypt_with_key(Plain(content), r.key)
      d1 == d \cup {DATA, STORAGE}
      b == BestEffort(fault)
  IN IF r.err # ""
     THEN [fs |-> f, dirs |-> d1, nUuid |-> n, res |-> r.err, name |-> << >>,
           src |-> "intact"]
     ELSE IF fault = "open"
     THEN [fs |-> f, dirs |-> d1, nUuid |-> n + 1, res |-> "IOFailure", name |-> << >>,
           src |-> "intact"]
     ELSE IF fault \in {"read", "encrypt"}
     THEN [fs |-> Write(f, out_path, Bytes("iv")), dirs |-> d1, nUuid |-> n + 1,
           res |-> "IOFailure", name |-> << >>, src |-> "intact"]
     ELSE IF fault \in {"write_empty", "write_cut"}
     THEN [fs |-> Write(f, out_path, IF fault = "write_empty" THEN Bytes("empty")
                                     ELSE [blob EXCEPT !.dmg = "cut"]),
           dirs |-> d1, nUuid |-> n + 1, res |-> "IOFailure", name |-> << >>,
           src |-> "intact"]
     ELSE IF b.raised
     THEN [fs |-> Write(f, out_path, blob), dirs |-> d1, nUuid |-> n + 1,
           res |-> "IOFailure", name |-> << >>, src |-> b.src]
     ELSE [fs |-> Write(f, out_path, blob), dirs |-> d1, nUuid |-> n + 1, res |-> "ok",
           name |-> out_name, src |-> b.src]

decrypt_to_temp_KeyFirst(f, d, stored_filename, password, order) ==
  LET p == find_stored_path(f, d, order, stored_filename)
      r == load_master_key(f, password)
  IN IF r.err # "" THEN [res |-> r.err, path |-> p, tmp |-> ""]
     ELSE IF p = NONE THEN [res |-> "NotFound", path |-> p, tmp |-> ""]
     ELSE IF p \notin DOMAIN f THEN [res |-> "IOFailure", path |-> p, tmp |-> ""]
     ELSE IF ~DecryptOk(f[p], r.key) THEN [res |-> "IntegrityFailure", path |-> p, tmp |-> ""]
     ELSE [res |-> "ok", path |-> p, tmp |-> PlainData(_decrypt_with_key(f[p], r.key))]

(* decrypt_to_temp(stored_filename, password), iterdir() giving `order`:   *)
(* the error raised ("ok" when it returns), the path it resolved and the   *)
(* bytes it wrote to the temporary file it returns ("" when it wrote none).*)
decrypt_to_temp(f, d, stored_filename, password, order) ==
  LET p == find_stored_path(f, d, order, stored_filename)
      r == load_master_key(f, password)
  IN IF p = NONE THEN [res |-> "NotFound", path |-> p, tmp |-> ""]
     ELSE IF r.err # "" THEN [res |-> r.err, path |-> p, tmp |-> ""]
     ELSE IF p \notin DOMAIN f THEN [res |-> "IOFailure", path |-> p, tmp |-> ""]
     ELSE IF ~DecryptOk(f[p], r.key) THEN [res |-> "IntegrityFailure", path |-> p, tmp |-> ""]
     ELSE [res |-> "ok", path |-> p, tmp |-> PlainData(_decrypt_with_key(f[p], r.key))]

(* delete_stored(stored_filename, password), iterdir() giving `order`.     *)
(* fault names the system call that fails, if any: those of                *)
(* secure_overwrite_and_delete, and with the suffix "+unlink" the          *)
(* fallback p.unlink() fails too.                                          *)
delete_stored(f, d, stored_filename, password, order, fault) ==
  LET p == find_stored_path(f, d, order, stored_filename)
      first == IF fault \in {"open", "open+unlink"} THEN "open"
               ELSE IF fault \in {"overwrite", "overwrite+unlink"} THEN "overwrite"
               ELSE fault
      e == secure_overwrite_and_delete(f, d, p, first)
      fallbackFails == p \in d \/ fault \in {"open+unlink", "overwrite+unlink"}
  IN IF p = NONE THEN [fs |-> f, res |-> FALSE, path |-> p]
     ELSE IF ~e.raised THEN [fs |-> e.fs, res |-> TRUE, path |-> p]
     ELSE IF fallbackFails THEN [fs |-> e.fs, res |-> FALSE, path |-> p]
     ELSE [fs |-> Unlink(e.fs, p), res |-> TRUE, path |-> p]

---------------------------------------------------------------------------
(* BackupService                                                           *)

NO_NAME == <<"None">>

ZipMembers_NoStorage(f) ==
  LET paths == {CONFIG_PATH, RECOVERY_PATH} \cap DOMAIN f
  IN [p \in paths |-> f[p]]

ZipMembers_WithWrappedKey(f) ==
  LET paths == StoragePaths(f) \cup ({CONFIG_PATH, RECOVERY_PATH, MK_ENC_PATH} \cap DOMAIN f)
  IN [p \in paths |-> f[p]]

(* The members create_encrypted_backup writes to the zip: every file under *)
(* storage/, then config.json and recovery.txt when they exist.            *)
ZipMembers(f) ==
  LET paths == StoragePaths(f) \cup ({CONFIG_PATH, RECOVERY_PATH} \cap DOMAIN f)
  IN [p \in paths |-> f[p]]

Zip(members) == [kind |-> "zip", members |-> members]

(* create_encrypted_backup(password, out_name=out_name) on files f and     *)
(* directories d after n draws of uuid4: the error raised ("ok" when it    *)
(* returns), the path of the file it wrote last, the files afterwards and  *)
(* `freed`: the bytes still in the disk blocks its unlink released.        *)
(* ZipFile(zip_path, 'w') creates or truncates zip_path before the members *)
(* are read; out_enc is named after the last component of zip_path.        *)
create_encrypted_backup(f, d, n, password, out_name) ==
  LET zip_name == IF out_name = NO_NAME THEN JUMAN_BACKUP_ \o Uuid4(n + 1) \o DOT_ZIP
                  ELSE out_name
      n1 == IF out_name = NO_NAME THEN n + 1 ELSE n
      zip_path == SplitPath(zip_name)
      f0 == Write(f, zip_path, Bytes("zip-in-progress"))
      f1 == Write(f, zip_path, Zip(ZipMembers(f0)))
      r == load_master_key(f1, password)
      enc == _encrypt_with_key(f1[zip_path], r.key)
      out_enc == <<zip_path[Len(zip_path)] \o BACKUP_SUFFIX>>
  IN IF DATA \notin d
     THEN [fs |-> f, nUuid |-> n1, res |-> "IOFailure", path |-> NONE, freed |-> Bytes("none")]
     ELSE IF r.err # ""
     THEN [fs |-> f1, nUuid |-> n1, res |-> r.err, path |-> zip_path, freed |-> Bytes("none")]
     ELSE [fs |-> Unlink(Write(f1, out_enc, enc), zip_path), nUuid |-> n1, res |-> "ok",
           path |-> out_enc, freed |-> f1[zip_path]]

ExtractAll_ReplaceStorage(f, members) ==
  LET kept == (DOMAIN f \ StoragePaths(f)) \cup DOMAIN members
  IN [p \in kept |-> IF p \in DOMAIN members THEN members[p] ELSE f[p]]

(* zf.extractall(data_dir)                                                 *)
ExtractAll(f, members) ==
  [p \in DOMAIN f \cup DOMAIN members |-> IF p \in DOMAIN members THEN members[p] ELSE f[p]]

restore_encrypted_backup_NoAuth(f, d, enc_file, password) ==
  LET r == load_master_key(f, password)
      enc == f[enc_file]
  IN IF r.err # "" THEN [fs |-> f, dirs |-> d, res |-> r.err, tmp |-> ""]
     ELSE IF enc.kind # "aead" \/ enc.pt.kind # "zip"
     THEN [fs |-> f, dirs |-> d, res |-> "BadZipFile", tmp |-> ""]
     ELSE [fs |-> ExtractAll(f, enc.pt.members), dirs |-> d \cup {DATA, STORAGE},
           res |-> "ok", tmp |-> ""]

(* restore_encrypted_backup(enc_file, password): the error raised ("ok"    *)
(* when it returns), the files and directories afterwards and the bytes    *)
(* left in a temporary file ("" when none is left).                        *)
restore_encrypted_backup(f, d, enc_file, password) ==
  LET r == load_master_key(f, password)
      enc == f[enc_file]
      zipbytes == _decrypt_with_key(enc, r.key)
  IN IF r.err # "" THEN [fs |-> f, dirs |-> d, res |-> r.err, tmp |-> ""]
     ELSE IF ~DecryptOk(enc, r.key)
     THEN [fs |-> f, dirs |-> d, res |-> "IntegrityFailure", tmp |-> ""]
     ELSE IF zipbytes.kind # "zip"
     THEN [fs |-> f, dirs |-> d, res |-> "BadZipFile", tmp |-> PlainData(zipbytes)]
     ELSE [fs |-> ExtractAll(f, zipbytes.members), dirs |-> d \cup {DATA, STORAGE},
           res |-> "ok", tmp |-> ""]

---------------------------------------------------------------------------
(* The commands of the vault and the arguments they are given              *)

(* What a caller passes to retrieve and delete: the name of a stored blob, *)
(* its identifier, or a name that is not stored.                           *)
Queries ==
  UNION {{n, IdPart(n)} : n \in list_stored(fs, dirs)} \cup {<<"z">>}

CurrentOrders == Orders(list_stored(fs, dirs))

Initialize(pw) ==
  LET o == init_data_dir(fs, dirs, nInits, pw)
  IN /\ o.nInits <= MaxInits
     /\ fs' = o.fs
     /\ dirs' = o.dirs
     /\ nInits' = o.nInits
     /\ initPw' = IF o.res = "ok" THEN pw ELSE initPw
     /\ UNCHANGED <<tmp, restored, nUuid, erase, procs>>

Unwrap(pw) ==
  /\ load_master_key(fs, pw).err \in {"", "ConfigMissing", "ConfigCorrupt", "AuthenticationFailure"}
  /\ UNCHANGED vars

Store(src, pw) ==
  LET o == store_encrypted(fs, dirs, nUuid, src.name, src.content, pw, "none")
  IN /\ o.nUuid <= MaxUuids
     /\ fs' = o.fs
     /\ dirs' = o.dirs
     /\ nUuid' = o.nUuid
     /\ UNCHANGED <<tmp, initPw, restored, nInits, erase, procs>>

Retrieve(q, pw, order) ==
  LET o == decrypt_to_temp(fs, dirs, q, pw, order)
  IN /\ tmp' = IF o.tmp = "" THEN tmp ELSE tmp \cup {o.tmp}
     /\ UNCHANGED <<fs, dirs, initPw, restored, nInits, nUuid, erase, procs>>

Delete(q, pw, order) ==
  LET o == delete_stored(fs, dirs, q, pw, order, "none")
  IN /\ fs' = o.fs
     /\ restored' = restored \cap DOMAIN o.fs
     /\ UNCHANGED <<dirs, tmp, initPw, nInits, nUuid, erase, procs>>

CreateBackup(pw) ==
  LET o == create_encrypted_backup(fs, dirs, nUuid, pw, NO_NAME)
  IN /\ o.nUuid <= MaxUuids
     /\ fs' = o.fs
     /\ nUuid' = o.nUuid
     /\ UNCHANGED <<dirs, tmp, initPw, restored, nInits, erase, procs>>

RestoreBackup(enc_file, pw) ==
  LET o == restore_encrypted_backup(fs, dirs, enc_file, pw)
  IN /\ fs' = o.fs
     /\ dirs' = o.dirs
     /\ tmp' = IF o.tmp = "" THEN tmp ELSE tmp \cup {o.tmp}
     /\ restored' = restored \cup (DOMAIN o.fs \ DOMAIN fs)
     /\ UNCHANGED <<initPw, nInits, nUuid, erase, procs>>

Next ==
  \/ \E pw \in Passwords : Initialize(pw)
  \/ \E pw \in Passwords : Unwrap(pw)
  \/ \E src \in SourceFiles, pw \in Passwords : Store(src, pw)
  \/ \E q \in Queries, pw \in Passwords, o \in CurrentOrders : Retrieve(q, pw, o)
  \/ \E q \in Queries, pw \in Passwords, o \in CurrentOrders : Delete(q, pw, o)
  \/ \E pw \in Passwords : CreateBackup(pw)
  \/ \E f \in DOMAIN fs, pw \in Passwords : RestoreBackup(f, pw)

Spec == Init /\ [][Next]_vars

---------------------------------------------------------------------------
(* secure_overwrite_and_delete(path, passes), one system call at a time    *)

MaxChunks == 2
MaxPasses == 2

CHUNK == 8192

(* The lengths of the file erased: whole chunks, and one byte more.        *)
FileSizes == {c * CHUNK + r : c \in 0..MaxChunks, r \in {0, 1}}

(* len(chunk) of chunk = os.urandom(min(8192, remaining)).                 *)
ChunkLen(remaining) == IF remaining < CHUNK THEN remaining ELSE CHUNK

(* Where the call goes on after the fsync of pass e.pass: the next round   *)
(* of `for _ in range(passes)`, or out of the with block.                  *)
AfterFsync_StopEarly(e) == IF e.pass + 1 < e.passes THEN "seek" ELSE "close"

AfterFsync(e) == IF e.pass < e.passes THEN "seek" ELSE "close"

(* The call starts: path is a file of some length, or does not exist.      *)
(* erase.log has one entry for each pass started: the bytes it has written *)
(* from offset 0, and whether its flush and its fsync have returned.       *)
EraseInit ==
  /\ fs = << >>
  /\ dirs = {}
  /\ tmp = {}
  /\ initPw = ""
  /\ restored = {}
  /\ nInits = 0
  /\ nUuid = 0
  /\ procs = << >>
  /\ \E x \in BOOLEAN, l \in FileSizes, n \in 0..MaxPasses :
       erase = [NotErasing EXCEPT !.pc = "exists", !.existed = x, !.exists = x,
                                  !.len = IF x THEN l ELSE 0, !.passes = n]

Rest == <<fs, dirs, tmp, initPw, restored, nInits, nUuid, procs>>

(* if not path.exists(): return *)
EraseExists ==
  /\ erase.pc = "exists"
  /\ erase' = [erase EXCEPT !.pc = IF erase.exists THEN "stat" ELSE "return"]
  /\ UNCHANGED Rest

(* size = path.stat().st_size *)
EraseStat ==
  /\ erase.pc = "stat"
  /\ erase' = [erase EXCEPT !.pc = "open", !.size = erase.len]
  /\ UNCHANGED Rest

(* with open(path, 'r+b') as f: for _ in range(passes) *)
EraseOpen ==
  /\ erase.pc = "open"
  /\ erase' = [erase EXCEPT !.pc = IF 0 < erase.passes THEN "seek" ELSE "close"]
  /\ UNCHANGED Rest

(* f.seek(0); remaining = size *)
EraseSeek ==
  /\ erase.pc = "seek"
  /\ erase' = [erase EXCEPT !.pc = IF erase.size > 0 THEN "write" ELSE "flush",
                            !.pass = erase.pass + 1,
                            !.remaining = erase.size,
                            !.log = Append(erase.log, [written |-> 0, flushed |-> FALSE,
                                                       synced |-> FALSE])]
  /\ UNCHANGED Rest

(* chunk = os.urandom(...); f.write(chunk); remaining -= len(chunk) *)
EraseWrite ==
  /\ erase.pc = "write"
  /\ LET n == ChunkLen(erase.remaining)
     IN erase' = [erase EXCEPT !.pc = IF erase.remaining - n > 0 THEN "write" ELSE "flush",
                               !.remaining = erase.remaining - n,
                               !.log[erase.pass].written = @ + n]
  /\ UNCHANGED Rest

(* f.flush() *)
EraseFlush ==
  /\ erase.pc = "flush"
  /\ erase' = [erase EXCEPT !.pc = "fsync", !.log[erase.pass].flushed = TRUE]
  /\ UNCHANGED Rest

(* os.fsync(f.fileno()) *)
EraseFsync ==
  /\ erase.pc = "fsync"
  /\ erase' = [erase EXCEPT !.pc = AfterFsync(erase), !.log[erase.pass].synced = TRUE]
  /\ UNCHANGED Rest

(* the with block is left: the file is closed *)
EraseClose ==
  /\ erase.pc = "close"
  /\ erase' = [erase EXCEPT !.pc = "unlink"]
  /\ UNCHANGED Rest

(* try: path.unlink() except Exception: pass *)
EraseUnlink ==
  /\ erase.pc = "unlink"
  /\ \E ok \in BOOLEAN : erase' = [erase EXCEPT !.pc = "return", !.exists = ~ok]
  /\ UNCHANGED Rest

(* stat, open, seek, write, flush or fsync raises: the exception leaves    *)
(* the function, past the unlink.                                          *)
EraseRaise ==
  /\ erase.pc \in {"stat", "open", "seek", "write", "flush", "fsync"}
  /\ erase' = [erase EXCEPT !.pc = "return", !.raised = TRUE]
  /\ UNCHANGED Rest

EraseNext ==
  \/ EraseExists
  \/ EraseStat
  \/ EraseOpen
  \/ EraseSeek
  \/ EraseWrite
  \/ EraseFlush
  \/ EraseFsync
  \/ EraseClose
  \/ EraseUnlink
  \/ EraseRaise

EraseSpec == EraseInit /\ [][EraseNext]_vars

---------------------------------------------------------------------------
(* init_data_dir run by two processes on one directory, one step at a time *)

Procs == {1, 2}

(* What process i of RaceSpec writes: the key and salt it drew are the     *)
(* k-th the secrets module handed out.                                     *)
WrappedKey(password, k) ==
  _encrypt_with_key(KeyBytes(MasterKey(k)), _derive_key(password, k, PBKDF2_ITER))

ConfigOf(k) == [kind |-> "json", salt |-> k, iterations |-> PBKDF2_ITER]

(* Both processes are about to call init_data_dir(data_dir, P) on a        *)
(* directory that is not initialized.                                      *)
RaceInit ==
  /\ fs = << >>
  /\ dirs = {}
  /\ tmp = {}
  /\ restored = {}
  /\ nInits = 0
  /\ nUuid = 0
  /\ erase = NotErasing
  /\ \E pw \in Passwords :
       /\ initPw = pw
       /\ procs = [i \in Procs |-> [pc |-> "mkdir", pw |-> pw, k |-> 0]]

Untouched == <<tmp, initPw, restored, nUuid, erase>>

(* data_dir.mkdir(...); storage.mkdir(...) *)
InitMkdir(i) ==
  /\ procs[i].pc = "mkdir"
  /\ dirs' = dirs \cup {DATA, STORAGE}
  /\ procs' = [procs EXCEPT ![i].pc = "check"]
  /\ UNCHANGED <<fs, nInits, Untouched>>

(* if config_path.exists() and (data_dir / MASTER_KEY_ENC).exists(): return *)
InitCheck(i) ==
  /\ procs[i].pc = "check"
  /\ procs' = [procs EXCEPT ![i].pc = IF Initialized(fs) THEN "done" ELSE "generate"]
  /\ UNCHANGED <<fs, dirs, nInits, Untouched>>

(* master_key = secrets.token_bytes(32); salt = secrets.token_bytes(...);  *)
(* dk, enc                                                                 *)
InitGenerate(i) ==
  /\ procs[i].pc = "generate"
  /\ nInits' = nInits + 1
  /\ procs' = [procs EXCEPT ![i].pc = "write_key", ![i].k = nInits + 1]
  /\ UNCHANGED <<fs, dirs, Untouched>>

(* with open(data_dir / MASTER_KEY_ENC, 'wb') as f: f.write(enc) *)
InitWriteKey(i) ==
  /\ procs[i].pc = "write_key"
  /\ fs' = Write(fs, MK_ENC_PATH, WrappedKey(procs[i].pw, procs[i].k))
  /\ procs' = [procs EXCEPT ![i].pc = "write_config"]
  /\ UNCHANGED <<dirs, nInits, Untouched>>

(* with open(config_path, 'w') as f: json.dump(config, f) *)
InitWriteConfig(i) ==
  /\ procs[i].pc = "write_config"
  /\ fs' = Write(fs, CONFIG_PATH, ConfigOf(procs[i].k))
  /\ procs' = [procs EXCEPT ![i].pc = "write_recovery"]
  /\ UNCHANGED <<dirs, nInits, Untouched>>

(* with open(data_dir / RECOVERY, 'w') as f: f.write(rec) *)
InitWriteRecovery(i) ==
  /\ procs[i].pc = "write_recovery"
  /\ fs' = Write(fs, RECOVERY_PATH, [kind |-> "text", token |-> procs[i].k])
  /\ procs' = [procs EXCEPT ![i].pc = "done"]
  /\ UNCHANGED <<dirs, nInits, Untouched>>

RaceNext ==
  \/ \E i \in Procs : InitMkdir(i)
  \/ \E i \in Procs : InitCheck(i)
  \/ \E i \in Procs : InitGenerate(i)
  \/ \E i \in Procs : InitWriteKey(i)
  \/ \E i \in Procs : InitWriteConfig(i)
  \/ \E i \in Procs : InitWriteRecovery(i)

RaceSpec == RaceInit /\ [][RaceNext]_vars

---------------------------------------------------------------------------
(* Properties                                                              *)

WrongPasswords == Passwords \ {initPw}

(* The files that hold ciphertext.                                         *)
Encrypted(f) == [p \in {x \in DOMAIN f : f[x].kind = "aead"} |-> f[p]]

(* The backup archives among the files, encrypted or not, and the members  *)
(* of one.                                                                 *)
Archives(f) ==
  {p \in DOMAIN f : f[p].kind = "zip" \/ (f[p].kind = "aead" /\ f[p].pt.kind = "zip")}

ArchiveMembers(f, p) == IF f[p].kind = "zip" THEN f[p].members ELSE f[p].pt.members

BackupFiles(f) == {p \in DOMAIN f : Len(p) = 1 /\ endswith(p[1], BACKUP_SUFFIX)}

(* C1: on an initialized vault, unwrap with a password other than the one  *)
(* given to initialize fails with AuthenticationFailure and returns no     *)
(* key; store, retrieve, createBackup and restoreBackup with such a        *)
(* password write no plaintext and no new encrypted file.                  *)
C1_WrongPasswordFails ==
  Initialized(fs) =>
    \A pw \in WrongPasswords :
      /\ load_master_key(fs, pw) = [err |-> "AuthenticationFailure", key |-> NoKey]
      /\ \A src \in SourceFiles :
           LET o == store_encrypted(fs, dirs, nUuid, src.name, src.content, pw, "none")
           IN o.res = "AuthenticationFailure" /\ o.fs = fs
      /\ \A q \in Queries, order \in CurrentOrders :
           LET o == decrypt_to_temp(fs, dirs, q, pw, order)
           IN o.res \in {"AuthenticationFailure", "NotFound"} /\ o.tmp = ""
      /\ LET o == create_encrypted_backup(fs, dirs, nUuid, pw, NO_NAME)
         IN o.res = "AuthenticationFailure" /\ Encrypted(o.fs) = Encrypted(fs)
      /\ \A enc_file \in DOMAIN fs :
           LET o == restore_encrypted_backup(fs, dirs, enc_file, pw)
           IN o.res = "AuthenticationFailure" /\ o.fs = fs /\ o.tmp = ""

C1_Witness ==
  /\ Initialized(fs)
  /\ StorageNames(fs) # {}
  /\ BackupFiles(fs) # {}
  /\ \E pw \in WrongPasswords :
       /\ load_master_key(fs, pw).err = "AuthenticationFailure"
       /\ \E p \in DOMAIN fs : fs[p].kind = "zip"

(* C2: initialize on an initialized vault, with any password, changes no   *)
(* file: unwrap with the original password returns the same master key and *)
(* every stored blob decrypts as before.                                   *)
C2_InitIdempotent ==
  Initialized(fs) =>
    \A pw \in Passwords :
      LET o == init_data_dir(fs, dirs, nInits, pw)
      IN /\ o.res = "already"
         /\ o.fs = fs
         /\ load_master_key(fs, initPw).err = ""
         /\ load_master_key(o.fs, initPw) = load_master_key(fs, initPw)
         /\ \A n \in list_stored(fs, dirs), order \in CurrentOrders :
              /\ decrypt_to_temp(o.fs, o.dirs, n, initPw, order).res = "ok"
              /\ decrypt_to_temp(o.fs, o.dirs, n, initPw, order).tmp = StoredContent(n)

C2_Witness ==
  /\ Initialized(fs)
  /\ StorageNames(fs) # {}
  /\ \E pw \in WrongPasswords : init_data_dir(fs, dirs, nInits, pw).res = "already"

(* C3: no member of any archive createBackup has written is the wrapped    *)
(* master key; the members are storage blobs, config.json and recovery.txt.*)
C3_BackupExcludesWrappedKey ==
  \A a \in Archives(fs) :
    LET m == ArchiveMembers(fs, a)
    IN /\ MK_ENC_PATH \notin DOMAIN m
       /\ \A x \in DOMAIN m :
            /\ x \in {CONFIG_PATH, RECOVERY_PATH} \/ (Len(x) = 2 /\ x[1] = STORAGE_DIRNAME)
            /\ ~(m[x].kind = "aead" /\ m[x].pt.kind = "keybytes")

C3_Witness ==
  \E a \in Archives(fs) \cap BackupFiles(fs) :
    /\ CONFIG_PATH \in DOMAIN ArchiveMembers(fs, a)
    /\ \E x \in DOMAIN ArchiveMembers(fs, a) : Len(x) = 2

(* Every order in which the names of a set can be enumerated.             *)
RECURSIVE AllOrders(_)
AllOrders(names) ==
  IF names = {} THEN {<< >>}
  ELSE UNION {{<<x>> \o rest : rest \in AllOrders(names \ {x})} : x \in names}

BlobPath(name) == <<STORAGE_DIRNAME, name>>

(* C4: after initialize(P) and a store of content C into an empty vault,   *)
(* list() has exactly one entry, retrieve of it with P returns exactly C,  *)
(* and retrieve of it with another password fails with                     *)
(* AuthenticationFailure.                                                  *)
C4_ScenarioA ==
  (Initialized(fs) /\ list_stored(fs, dirs) = {}) =>
    \A src \in SourceFiles :
      LET s == store_encrypted(fs, dirs, nUuid, src.name, src.content, initPw, "none")
      IN /\ s.res = "ok"
         /\ list_stored(s.fs, s.dirs) = {s.name}
         /\ \A order \in AllOrders({s.name}) :
              /\ decrypt_to_temp(s.fs, s.dirs, s.name, initPw, order)
                   = [res |-> "ok", path |-> BlobPath(s.name), tmp |-> src.content]
              /\ \A pw \in WrongPasswords :
                   decrypt_to_temp(s.fs, s.dirs, s.name, pw, order)
                     = [res |-> "AuthenticationFailure", path |-> BlobPath(s.name), tmp |-> ""]

C4_Witness ==
  /\ initPw = "Tr0ub4dor&3"
  /\ nUuid = 1
  /\ Cardinality(list_stored(fs, dirs)) = 1
  /\ tmp = {"PDF-DATA"}
  /\ \A n \in list_stored(fs, dirs) : StoredContent(n) = "PDF-DATA"

RECURSIVE DeleteEach(_, _, _)
(* delete of each name of the sequence names in turn: the files left and   *)
(* whether every call returned true.                                       *)
DeleteEach(f, d, names) ==
  IF names = << >> THEN [fs |-> f, ok |-> TRUE]
  ELSE LET o == delete_stored(f, d, Head(names), initPw, Enumerate(StorageNames(f)), "none")
           rest == DeleteEach(o.fs, d, Tail(names))
       IN [fs |-> rest.fs, ok |-> o.res /\ rest.ok]

(* C5: createBackup(P), delete of every stored blob, restoreBackup of the  *)
(* archive with P: list() shows the blob names it showed before the        *)
(* backup and retrieve of each returns the content that was stored.        *)
C5_ScenarioB ==
  Initialized(fs) =>
    \A names \in AllOrders(list_stored(fs, dirs)) :
      LET b == create_encrypted_backup(fs, dirs, nUuid, initPw, NO_NAME)
          e == DeleteEach(b.fs, dirs, names)
          r == restore_encrypted_backup(e.fs, dirs, b.path, initPw)
      IN /\ b.res = "ok"
         /\ e.ok
         /\ list_stored(e.fs, dirs) = {}
         /\ r.res = "ok"
         /\ list_stored(r.fs, r.dirs) = list_stored(fs, dirs)
         /\ \A n \in list_stored(fs, dirs) :
              decrypt_to_temp(r.fs, r.dirs, n, initPw, names)
                = [res |-> "ok", path |-> BlobPath(n), tmp |-> StoredContent(n)]

C5_Witness ==
  /\ Cardinality(StoragePaths(fs)) = 2
  /\ StoragePaths(fs) \subseteq restored
  /\ \E n1, n2 \in StorageNames(fs) : StoredContent(n1) # StoredContent(n2)
  /\ \A n \in StorageNames(fs) :
       decrypt_to_temp(fs, dirs, n, initPw, Enumerate(StorageNames(fs))).tmp = StoredContent(n)

(* The identifiers store has issued so far.                                *)
IssuedIds == {Uuid4(i) : i \in 1..nUuid}

(* C6: two successful stores, also of files of one name, return distinct   *)
(* blob names with distinct identifiers; the second store overwrites no    *)
(* blob, and both blobs are in list() afterwards.                          *)
C6_DistinctBlobs ==
  Initialized(fs) =>
    \A src1, src2 \in SourceFiles :
      LET s1 == store_encrypted(fs, dirs, nUuid, src1.name, src1.content, initPw, "none")
          s2 == store_encrypted(s1.fs, s1.dirs, s1.nUuid, src2.name, src2.content, initPw,
                                "none")
      IN /\ s1.res = "ok" /\ s2.res = "ok"
         /\ s1.name # s2.name
         /\ IdPart(s1.name) # IdPart(s2.name)
         /\ {s1.name, s2.name} \cap StorageNames(fs) = {}
         /\ {IdPart(s1.name), IdPart(s2.name)} \cap
              (IssuedIds \cup {IdPart(n) : n \in StorageNames(fs)}) = {}
         /\ \A p \in DOMAIN fs : s2.fs[p] = fs[p]
         /\ s2.fs[BlobPath(s1.name)] = s1.fs[BlobPath(s1.name)]
         /\ list_stored(s2.fs, s2.dirs) = list_stored(fs, dirs) \cup {s1.name, s2.name}

C6_Witness ==
  \E n1, n2 \in list_stored(fs, dirs) :
    /\ n1 # n2
    /\ IdPart(n1) # IdPart(n2)
    /\ SubSeq(n1, FindSep(n1), Len(n1)) = SubSeq(n2, FindSep(n2), Len(n2))

NoExt(name) == SubSeq(name, 1, Len(name) - Len(JMN))

(* The spellings of a blob name the lookup is to accept: the name, the     *)
(* name without '.jmn', the identifier, and each of them in capitals and   *)
(* in small letters.                                                       *)
Spellings(name) ==
  LET base == {name, NoExt(name), IdPart(name)}
  IN base \cup {upper(x) : x \in base} \cup {lower(x) : x \in base}

(* C7: the tolerant lookup resolves the identifier of a stored blob, its   *)
(* full name, its name without '.jmn' and their case-varied spellings to   *)
(* that blob, whatever the enumeration order.                              *)
C7_LookupTolerance ==
  \A order \in AllOrders(list_stored(fs, dirs)) :
    \A n \in list_stored(fs, dirs) :
      \A q \in Spellings(n) :
        find_stored_path(fs, dirs, order, q) = BlobPath(n)

C7_Witness ==
  /\ Cardinality(list_stored(fs, dirs)) >= 2
  /\ tmp # {}
  /\ \E n \in list_stored(fs, dirs) :
       /\ upper(n) # n
       /\ lower(n) # n
       /\ find_stored_path(fs, dirs, Enumerate(list_stored(fs, dirs)), upper(NoExt(n)))
            = BlobPath(n)

(* What an alteration of a stored blob leaves: a flipped bit in the        *)
(* ciphertext or in the tag, a truncation that keeps the nonce, or one to  *)
(* fewer than 12 bytes.                                                    *)
TamperKinds == {"flip_ct", "flip_tag", "truncate", "truncate_short"}

Tamper(content, kind) ==
  IF kind = "truncate_short" THEN Bytes("short") ELSE [content EXCEPT !.dmg = kind]

(* C8: retrieve, with the right password, of a blob whose ciphertext or    *)
(* tag was altered or that was truncated fails with IntegrityFailure and   *)
(* writes no output.                                                       *)
C8_TamperDetected ==
  Initialized(fs) =>
    \A n \in list_stored(fs, dirs), kind \in TamperKinds, order \in CurrentOrders :
      LET f2 == Write(fs, BlobPath(n), Tamper(fs[BlobPath(n)], kind))
      IN \A q \in {n, IdPart(n)} :
           decrypt_to_temp(f2, dirs, q, initPw, order)
             = [res |-> "IntegrityFailure", path |-> BlobPath(n), tmp |-> ""]

C8_Witness ==
  /\ Initialized(fs)
  /\ tmp # {}
  /\ \E n \in list_stored(fs, dirs) :
       /\ decrypt_to_temp(fs, dirs, n, initPw, Enumerate(list_stored(fs, dirs))).res = "ok"
       /\ decrypt_to_temp(Write(fs, BlobPath(n), Tamper(fs[BlobPath(n)], "flip_tag")), dirs, n,
                          initPw, Enumerate(list_stored(fs, dirs))).res = "IntegrityFailure"

StoreFaults == {"open", "read", "encrypt", "write_empty", "write_cut"}

(* C9: store is all-or-nothing on storage/: a store that fails at any step *)
(* leaves no new entry, and a new entry is a complete blob of a store that *)
(* completed.                                                              *)
C9_StoreAllOrNothing ==
  \A src \in SourceFiles, pw \in Passwords, fault \in StoreFaults \cup {"none"} :
    LET o == store_encrypted(fs, dirs, nUuid, src.name, src.content, pw, fault)
    IN /\ o.res # "ok" => StoragePaths(o.fs) = StoragePaths(fs)
       /\ \A p \in StoragePaths(o.fs) \ StoragePaths(fs) :
            o.res = "ok" /\ o.fs[p].kind = "aead" /\ o.fs[p].dmg = "none"

DeleteFaults == {"open", "overwrite", "unlink", "open+unlink", "overwrite+unlink"}

(* C10: delete is all-or-nothing on the blob it resolved: after it returns *)
(* the blob is gone, or it is still there with its bytes unchanged.        *)
C10_DeleteAllOrNothing ==
  \A n \in list_stored(fs, dirs), pw \in Passwords, order \in CurrentOrders,
     fault \in DeleteFaults \cup {"none"} :
    LET o == delete_stored(fs, dirs, n, pw, order, fault)
    IN BlobPath(n) \notin DOMAIN o.fs \/ o.fs[BlobPath(n)] = fs[BlobPath(n)]

(* What makes an archive fail authenticated decryption: the alterations   *)
(* of Tamper, or encryption under a key that is not this vault's.          *)
ArchiveDamage == TamperKinds \cup {"other_key"}

DamageArchive(content, kind) ==
  IF kind = "other_key" THEN [content EXCEPT !.key = MasterKey(nInits + 1)]
  ELSE Tamper(content, kind)

(* C11: restoreBackup of an archive that was altered, truncated or         *)
(* encrypted under another key fails with IntegrityFailure and extracts    *)
(* nothing: storage, config.json, master.key.enc and recovery.txt are      *)
(* unchanged and no temporary file is left.                                *)
C11_RestoreRejectsBadArchive ==
  Initialized(fs) =>
    \A a \in BackupFiles(fs), kind \in ArchiveDamage :
      LET f2 == Write(fs, a, DamageArchive(fs[a], kind))
          o == restore_encrypted_backup(f2, dirs, a, initPw)
      IN /\ o.res = "IntegrityFailure"
         /\ o.fs = f2
         /\ o.dirs = dirs
         /\ o.tmp = ""

C11_Witness ==
  /\ Initialized(fs)
  /\ \E a \in BackupFiles(fs) :
       /\ restore_encrypted_backup(fs, dirs, a, initPw).res = "ok"
       /\ restore_encrypted_backup(fs, dirs, a, initPw).fs # fs
       /\ restore_encrypted_backup(Write(fs, a, DamageArchive(fs[a], "flip_ct")), dirs, a,
                                   initPw).res = "IntegrityFailure"

(* C12: createBackup with a password that does not unwrap the master key   *)
(* fails with AuthenticationFailure and changes no file: no encrypted      *)
(* backup and no unencrypted archive is in the vault directory afterwards. *)
C12_BackupWrongPasswordNoChange ==
  Initialized(fs) =>
    \A pw \in WrongPasswords :
      LET o == create_encrypted_backup(fs, dirs, nUuid, pw, NO_NAME)
      IN /\ o.res = "AuthenticationFailure"
         /\ o.fs = fs
         /\ \A p \in DOMAIN o.fs : o.fs[p].kind # "zip"

(* Queries that are paths rather than names: the empty string, '..' and   *)
(* '../<file>' for the files of the vault directory.                       *)
Traversal(name) == <<".", ".", "/">> \o name

PathQueries ==
  {<< >>, <<".", ".">>, Traversal(CONFIG_NAME), Traversal(MASTER_KEY_ENC), Traversal(RECOVERY)}

(* Every query a caller may pass in the current state.                     *)
AnyQueries == Queries \cup PathQueries

(* C13: once config.json and master.key.enc both exist the vault stays     *)
(* Initialized: no initialize, store, delete, createBackup or              *)
(* restoreBackup call, whatever its arguments, ends in a state where one   *)
(* of the two is missing (list and retrieve change no file).               *)
C13_StaysInitialized ==
  Initialized(fs) =>
    /\ \A pw \in Passwords : Initialized(init_data_dir(fs, dirs, nInits, pw).fs)
    /\ \A src \in SourceFiles, pw \in Passwords :
         Initialized(store_encrypted(fs, dirs, nUuid, src.name, src.content, pw, "none").fs)
    /\ \A pw \in Passwords :
         Initialized(create_encrypted_backup(fs, dirs, nUuid, pw, NO_NAME).fs)
    /\ \A enc_file \in DOMAIN fs, pw \in Passwords :
         Initialized(restore_encrypted_backup(fs, dirs, enc_file, pw).fs)
    /\ \A q \in AnyQueries, pw \in Passwords, order \in CurrentOrders :
         Initialized(delete_stored(fs, dirs, q, pw, order, "none").fs)

(* The stored wrap record: the two files load_master_key reads.           *)
WrapRecord(f) == [p \in {CONFIG_PATH, MK_ENC_PATH} \cap DOMAIN f |-> f[p]]

(* The files after each operation that succeeds with the initialization    *)
(* password (unwrap, list and retrieve leave the files as they are).       *)
AfterSuccess ==
  {fs}
    \cup {store_encrypted(fs, dirs, nUuid, src.name, src.content, initPw, "none").fs :
            src \in SourceFiles}
    \cup {create_encrypted_backup(fs, dirs, nUuid, initPw, NO_NAME).fs}
    \cup {restore_encrypted_backup(fs, dirs, a, initPw).fs : a \in BackupFiles(fs)}
    \cup {delete_stored(fs, dirs, n, initPw, Enumerate(StorageNames(fs)), "none").fs :
            n \in StorageNames(fs)}

C15_UninitializedFails ==
  ~Initialized(fs) =>
    \A pw \in Passwords :
      /\ load_master_key(fs, pw) = [err |-> "ConfigMissing", key |-> NoKey]
      /\ \A src \in SourceFiles :
           LET o == store_encrypted(fs, dirs, nUuid, src.name, src.content, pw, "none")
           IN o.res = "ConfigMissing" /\ o.fs = fs
      /\ \A enc_file \in DOMAIN fs \cup {OUTSIDE} :
           LET o == restore_encrypted_backup(fs, dirs, enc_file, pw)
           IN o.res = "ConfigMissing" /\ o.fs = fs /\ o.tmp = ""
      /\ DATA \in dirs =>
           LET o == create_encrypted_backup(fs, dirs, nUuid, pw, NO_NAME)
           IN o.res = "ConfigMissing" /\ o.fs = fs

(* Names that are not stored: an unknown name, an unknown identifier and  *)
(* the name a source file had before it was stored.                        *)
MissQueries == {<<"z">>, <<"c", "9">>, <<"r">>}

(* A query that is a name: not empty, no path separator, not '.' or '..'.  *)
IsName(q) == q # << >> /\ "/" \notin Range(q) /\ q \notin {<<".">>, <<".", ".">>}

(* Does the stored name n match the query under one of the lookup's rules? *)
Matches(n, q) == n = q \/ n = q \o JMN \/ LoopMatch(n, q)

C17_DeleteResult ==
  \A q \in AnyQueries \cup MissQueries, pw \in Passwords, order \in CurrentOrders,
     fault \in DeleteFaults \cup {"none"} :
    LET p == find_stored_path(fs, dirs, order, q)
        o == delete_stored(fs, dirs, q, pw, order, fault)
    IN /\ o.res = (p \in StoragePaths(fs))
       /\ o.res =>
            /\ p \notin StoragePaths(o.fs)
            /\ \A x \in StoragePaths(fs) \ {p} : x \in DOMAIN o.fs /\ o.fs[x] = fs[x]
       /\ ~o.res =>
            /\ StoragePaths(o.fs) = StoragePaths(fs)
            /\ \A x \in StoragePaths(fs) : o.fs[x] = fs[x]

RECURSIVE HoldsKey(_)
(* Do the bytes c hold the master key, encrypted or not?                   *)
HoldsKey(c) ==
  CASE c.kind = "keybytes" -> TRUE
    [] c.kind = "aead" -> HoldsKey(c.pt)
    [] c.kind = "zip" -> \E m \in DOMAIN c.members : HoldsKey(c.members[m])
    [] OTHER -> FALSE

RECURSIVE ClearKey(_)
(* Can the master key be read from the bytes c without a key?              *)
ClearKey(c) ==
  CASE c.kind = "keybytes" -> TRUE
    [] c.kind = "zip" -> \E m \in DOMAIN c.members : ClearKey(c.members[m])
    [] OTHER -> FALSE

(* C18: the master key is never persisted in clear.  master.key.enc holds  *)
(* it encrypted under the password-derived key and is the only file that   *)
(* holds it at all; no blob, config.json, recovery.txt, archive or         *)
(* temporary file holds it, whatever retrieve or restoreBackup is asked    *)
(* to open.                                                                *)
C18_KeyNeverInClear ==
  /\ \A p \in DOMAIN fs :
       /\ ~ClearKey(fs[p])
       /\ p # MK_ENC_PATH => ~HoldsKey(fs[p])
  /\ "<keybytes>" \notin tmp
  /\ Initialized(fs) =>
       /\ fs[MK_ENC_PATH].kind = "aead"
       /\ fs[MK_ENC_PATH].pt.kind = "keybytes"
       /\ fs[MK_ENC_PATH].key = _derive_key(initPw, fs[CONFIG_PATH].salt, fs[CONFIG_PATH].iterations)
       /\ \A q \in AnyQueries, order \in CurrentOrders :
            decrypt_to_temp(fs, dirs, q, initPw, order).tmp # "<keybytes>"
       /\ \A enc_file \in DOMAIN fs :
            LET o == restore_encrypted_backup(fs, dirs, enc_file, initPw)
            IN o.tmp # "<keybytes>" /\ \A p \in DOMAIN o.fs : ~ClearKey(o.fs[p])

C18_Witness ==
  /\ Initialized(fs)
  /\ StorageNames(fs) # {}
  /\ BackupFiles(fs) # {}
  /\ tmp # {}
  /\ \E p \in DOMAIN fs : fs[p].kind = "zip" /\ RECOVERY_PATH \in DOMAIN fs[p].members
  /\ HoldsKey(fs[MK_ENC_PATH])

---------------------------------------------------------------------------
(* The lookup as a function of the directory it is given                   *)

(* File names a storage directory may hold besides those store generates.  *)
NamePool ==
  {<<"R", ".", "j", "m", "n">>, <<"r", ".", "j", "m", "n", ".", "b">>,
   <<"a", "1", "_", "_", "r", ".", "j", "m", "n">>}

(* An initialized vault whose storage holds blobs under any names of the   *)
(* pool.                                                                   *)
LookupInit ==
  \E names \in SUBSET NamePool, pw \in Passwords :
    LET v == init_data_dir(<< >>, {}, 0, pw)
        blob == _encrypt_with_key(Plain("PDF-DATA"), MasterKey(1))
    IN /\ fs = [p \in DOMAIN v.fs \cup {BlobPath(n) : n \in names} |->
                  IF p \in DOMAIN v.fs THEN v.fs[p] ELSE blob]
       /\ dirs = v.dirs
       /\ tmp = {}
       /\ initPw = pw
       /\ restored = {}
       /\ nInits = 1
       /\ nUuid = 0
       /\ erase = NotErasing
       /\ procs = << >>

LookupQueries == AnyQueries \cup MissQueries

LookupNext ==
  \/ \E q \in LookupQueries, pw \in Passwords, o \in CurrentOrders : Retrieve(q, pw, o)
  \/ \E q \in LookupQueries, pw \in Passwords, o \in CurrentOrders : Delete(q, pw, o)

LookupSpec == LookupInit /\ [][LookupNext]_vars

(* The names a lookup in strict priority order may return for q: the exact *)
(* name; else the name plus '.jmn'; else the names equal to one of the two *)
(* up to case; else the names that q is a prefix or the identifier of.     *)
StrictLookup(names, q) ==
  LET ci == {n \in names : lower(n) = lower(q) \/ lower(n) = lower(q \o JMN)}
      pre == {n \in names : startswith(n, q)
                             \/ (FindSep(n) > 0 /\ lower(IdPart(n)) = lower(q))}
  IN IF q \in names THEN {q}
     ELSE IF q \o JMN \in names THEN {q \o JMN}
     ELSE IF ci # {} THEN ci
     ELSE pre

Snapshot(f, a) ==
  LET m == ArchiveMembers(f, a)
  IN [p \in {x \in DOMAIN m : Len(x) = 2 /\ x[1] = STORAGE_DIRNAME} |-> m[p]]

(* C20, as claimed: after a successful restoreBackup storage is the        *)
(* snapshot: every blob of the archive exists with its snapshot bytes and  *)
(* list() is the set of blob names at backup time.                         *)
C20_RestoreReplacesStorage ==
  Initialized(fs) =>
    \A a \in BackupFiles(fs) :
      LET o == restore_encrypted_backup(fs, dirs, a, initPw)
          snap == Snapshot(fs, a)
      IN o.res = "ok" =>
           /\ \A p \in DOMAIN snap : p \in DOMAIN o.fs /\ o.fs[p] = snap[p]
           /\ list_stored(o.fs, o.dirs) = {p[2] : p \in DOMAIN snap}

(* C20, amended: after a successful restoreBackup every blob of the        *)
(* archive exists with its snapshot bytes, every other blob in storage is  *)
(* unchanged, and list() is the union of the blob names at backup time     *)
(* and the names listed before the restore.                                *)
C20_RestoreMergesSnapshot ==
  Initialized(fs) =>
    \A a \in BackupFiles(fs) :
      LET o == restore_encrypted_backup(fs, dirs, a, initPw)
          snap == Snapshot(fs, a)
      IN /\ o.res = "ok"
         /\ \A p \in DOMAIN snap : p \in DOMAIN o.fs /\ o.fs[p] = snap[p]
         /\ \A p \in StoragePaths(fs) \ DOMAIN snap : p \in DOMAIN o.fs /\ o.fs[p] = fs[p]
         /\ list_stored(o.fs, o.dirs) = {p[2] : p \in DOMAIN snap} \cup list_stored(fs, dirs)

C20_Witness ==
  /\ Initialized(fs)
  /\ \E a \in BackupFiles(fs) :
       /\ DOMAIN Snapshot(fs, a) # {}
       /\ DOMAIN Snapshot(fs, a) \subseteq restored
       /\ DOMAIN Snapshot(fs, a) \subseteq StoragePaths(fs)
       /\ StoragePaths(fs) \ DOMAIN Snapshot(fs, a) # {}

(* C21: when createBackup succeeds the only new file is the encrypted      *)
(* archive with the '.jumanbackup' suffix, and the intermediate            *)
(* unencrypted archive is gone with its bytes overwritten before the       *)
(* unlink.                                                                 *)
C21_BackupErasesZip ==
  Initialized(fs) =>
    LET o == create_encrypted_backup(fs, dirs, nUuid, initPw, NO_NAME)
    IN /\ o.res = "ok"
       /\ DOMAIN o.fs \ DOMAIN fs = {o.path}
       /\ endswith(o.path[1], BACKUP_SUFFIX)
       /\ \A p \in DOMAIN o.fs \ DOMAIN fs : o.fs[p].kind # "zip"
       /\ o.freed.kind # "zip"

(* The pass of log entry p overwrote the whole file with random bytes and  *)
(* its flush and fsync returned.                                           *)
PassComplete(p) == p.written = erase.len /\ p.flushed /\ p.synced

BestEffortFaults ==
  {"hide", "erase_open", "erase_overwrite", "erase_unlink", "erase_open+unlink",
   "erase_overwrite+unlink"}

(* C23: a failure of a best-effort step of store (the hidden attribute,    *)
(* the secure erase of the source) does not fail the store: the source is  *)
(* deleted the ordinary way or left, the name of the blob is returned and  *)
(* the complete blob is in storage.                                        *)
C23_BestEffortNeverFailsStore ==
  Initialized(fs) =>
    \A s \in SourceFiles, fault \in BestEffortFaults :
      LET o == store_encrypted(fs, dirs, nUuid, s.name, s.content, initPw, fault)
          ok == store_encrypted(fs, dirs, nUuid, s.name, s.content, initPw, "none")
      IN /\ o.res = "ok"
         /\ o.name = ok.name
         /\ o.name \in list_stored(o.fs, o.dirs)
         /\ o.fs = ok.fs
         /\ decrypt_to_temp(o.fs, o.dirs, o.name, initPw, << >>).tmp = s.content
         /\ o.src \in {"erased", "unlinked", "overwritten", "intact"}
         /\ fault \in {"erase_open", "erase_overwrite"} => o.src = "unlinked"

C23_Witness ==
  /\ Initialized(fs)
  /\ \E s \in SourceFiles : \E p \in StoragePaths(fs) :
       /\ endswith(p[2], _sanitize_filename(s.name) \o JMN)
       /\ p[2] = store_encrypted(fs, dirs, nUuid - 1, s.name, s.content, initPw,
                                 "erase_open").name

(* Every blob list() shows in files f decrypts, under the master key that  *)
(* password unwraps, to the content that was stored under its name.        *)
ListedBlobsDecrypt(f, d, password) ==
  \A n \in list_stored(f, d) :
    LET r == load_master_key(f, password)
    IN /\ r.err = ""
       /\ DecryptOk(f[BlobPath(n)], r.key)
       /\ PlainData(_decrypt_with_key(f[BlobPath(n)], r.key)) = StoredContent(n)

(* C24: after any sequence of initialize, store, delete, createBackup and  *)
(* restoreBackup calls, every blob listed decrypts under the master key    *)
(* the init password unwraps to exactly the content stored: here after the *)
(* calls that led to the current state, then a delete and an initialize.   *)
C24_ListedBlobsDecrypt ==
  \A q \in AnyQueries, pw \in Passwords, order \in CurrentOrders :
    LET del == delete_stored(fs, dirs, q, pw, order, "none")
        ini == init_data_dir(del.fs, dirs, nInits, pw)
    IN Initialized(ini.fs) =>
         ListedBlobsDecrypt(ini.fs, ini.dirs, IF ini.res = "ok" THEN pw ELSE initPw)

(* C25: delete is gated by the password: with a password that is not the   *)
(* init password it fails with AuthenticationFailure (here: does not       *)
(* report a deletion) and removes nothing.                                 *)
C25_DeleteNeedsPassword ==
  Initialized(fs) =>
    \A n \in list_stored(fs, dirs), pw \in WrongPasswords, order \in CurrentOrders :
      LET o == delete_stored(fs, dirs, n, pw, order, "none")
      IN /\ load_master_key(fs, pw).err = "AuthenticationFailure"
         /\ ~o.res
         /\ o.fs = fs

(* C26: for every query string (the empty string, strings with a path      *)
(* separator and '..' among them) the lookup resolves to a regular file    *)
(* directly inside storage/, or to nothing.                                *)
C26_LookupStaysInStorage ==
  \A q \in AnyQueries \cup MissQueries, order \in CurrentOrders :
    find_stored_path(fs, dirs, order, q) \in StoragePaths(fs) \cup {NONE}

(* C27: store never loses the content: the source is touched only after    *)
(* the complete blob is written, a store that fails leaves the source      *)
(* intact, and wherever the call stops the content can be recovered from   *)
(* the source or from the blob.                                            *)
C27_StoreKeepsContent ==
  Initialized(fs) =>
    \A s \in SourceFiles, pw \in Passwords,
       fault \in StoreFaults \cup BestEffortFaults \cup {"none"} :
      LET o == store_encrypted(fs, dirs, nUuid, s.name, s.content, pw, fault)
          mk == load_master_key(fs, initPw).key
          new == StoragePaths(o.fs) \ StoragePaths(fs)
          complete == \E p \in new : /\ DecryptOk(o.fs[p], mk)
                                     /\ PlainData(_decrypt_with_key(o.fs[p], mk)) = s.content
      IN /\ o.src # "intact" => complete /\ o.res = "ok"
         /\ o.res # "ok" => o.src = "intact"
         /\ o.src = "intact" \/ complete
         /\ \A p \in DOMAIN fs : p \in DOMAIN o.fs /\ o.fs[p] = fs[p]

C27_Witness ==
  /\ Initialized(fs)
  /\ Cardinality(StoragePaths(fs)) > 1
  /\ ListedBlobsDecrypt(fs, dirs, initPw)
  /\ \E s \in SourceFiles :
       store_encrypted(fs, dirs, nUuid, s.name, s.content, initPw, "write_cut").src = "intact"

(* C28: whatever the interleaving of the checks and writes of two          *)
(* concurrent initialize(P) calls on an uninitialized vault, once both     *)
(* have returned the salt in config.json is the one master.key.enc was     *)
(* wrapped with, and unwrap(P) succeeds.                                   *)
C28_RaceLeavesUsableVault ==
  (DOMAIN procs # {} /\ \A i \in DOMAIN procs : procs[i].pc = "done") =>
    /\ Initialized(fs)
    /\ fs[MK_ENC_PATH].key.salt = fs[CONFIG_PATH].salt
    /\ load_master_key(fs, initPw).err = ""

(* Output names a caller may pass to createBackup: none, a new name, and   *)
(* the names of files the vault already holds.                             *)
OutNames ==
  {NO_NAME, <<"b">>, CONFIG_NAME, MASTER_KEY_ENC, RECOVERY}
    \cup {STORAGE_DIRNAME \o <<"/">> \o n : n \in list_stored(fs, dirs)}

(* C29: createBackup, for every value of its optional output name, leaves  *)
(* config.json, master.key.enc, recovery.txt and every blob in storage     *)
(* unchanged, and list() unchanged; it only adds the backup archive file.  *)
C29_BackupOnlyAddsArchive ==
  Initialized(fs) =>
    \A out \in OutNames :
      LET o == create_encrypted_backup(fs, dirs, nUuid, initPw, out)
      IN /\ \A p \in DOMAIN fs : p \in DOMAIN o.fs /\ o.fs[p] = fs[p]
         /\ list_stored(o.fs, dirs) = list_stored(fs, dirs)
         /\ DOMAIN o.fs \ DOMAIN fs = {o.path}
         /\ o.res = "ok"

(* C30: after a successful restoreBackup of an archive createBackup made   *)
(* on this vault, unwrap with the initialization password succeeds and     *)
(* returns the same master key as before: the config.json extracted is     *)
(* consistent with the master.key.enc left in place.  Checked in the       *)
(* current state and after the vault lost a file of its directory and was  *)
(* initialized again, with the archives of the earlier key still there.    *)
C30_RestoreKeepsUnwrap ==
  \A q \in PathQueries \cup {<<"z">>}, pw1 \in Passwords :
    LET del == delete_stored(fs, dirs, q, pw1, Enumerate(list_stored(fs, dirs)), "none")
        ini == init_data_dir(del.fs, dirs, nInits, pw1)
        P == IF ini.res = "ok" THEN pw1 ELSE initPw
    IN Initialized(ini.fs) =>
         \A a \in BackupFiles(ini.fs), pw \in Passwords :
           LET o == restore_encrypted_backup(ini.fs, ini.dirs, a, pw)
           IN o.res = "ok" =>
                /\ load_master_key(o.fs, P).err = ""
                /\ load_master_key(o.fs, P).key = load_master_key(ini.fs, P).key
                /\ o.fs[CONFIG_PATH].salt = o.fs[MK_ENC_PATH].key.salt
                /\ o.fs[MK_ENC_PATH] = ini.fs[MK_ENC_PATH]

C30_Witness ==
  /\ Initialized(fs)
  /\ restored # {}
  /\ \E a \in BackupFiles(fs) :
       /\ CONFIG_PATH \in DOMAIN ArchiveMembers(fs, a)
       /\ restore_encrypted_backup(fs, dirs, a, initPw).res = "ok"
       /\ load_master_key(restore_encrypted_backup(fs, dirs, a, initPw).fs, initPw).err = ""

====
